---- MODULE Spec2Model ----
(***************************************************************************)
(* Model of the TimeLapse firmware (arduino/TimeLapse/TimeLapse.ino): the  *)
(* capture state held in the sketch's globals, the eight serial shell      *)
(* commands and the control loop.                                          *)
(*                                                                         *)
(* One iteration of loop() is two steps: the shell step (executeIfInput:   *)
(* one command handler runs, or nothing when no line is waiting) takes pc  *)
(* from "input" to "capture"; the rest of loop() (the capture branch or    *)
(* the LED clear) takes it back.  A handler, blocking pulses included, is  *)
(* one atomic step.                                                        *)
(*                                                                         *)
(* Numbers.  int is modelled with a reduced range INT_MIN .. INT_MAX; a    *)
(* signed overflow and an out-of-range float-to-int conversion are         *)
(* undefined behaviour and yield any int.  The two floats hold thousandths of a      *)
(* second as exact integers; every argument the model feeds is a multiple  *)
(* of 0.5 of small magnitude, so every product and every quotient that     *)
(* reaches floor() is exact in binary32 as well.  millis() is unsigned and *)
(* wraps; the model keeps the two differences the code computes from it    *)
(* (photoTimer.elapsed() and millis() - lastToggle) modulo MillisMod, the  *)
(* reduced wrap, and observes the clock at a granularity of PULSE_DUR.     *)
(***************************************************************************)
EXTENDS Integers, Sequences, FiniteSets, TLC

\* ------------------------------------------------------------------------
\* Bounds of the model
\* ------------------------------------------------------------------------

\* largest int, reduced
INT_MAX == 3

\* the millisecond clock wraps after WrapSteps pulse widths, reduced from 2^32 ms
WrapSteps == 12

\* ------------------------------------------------------------------------
\* Program constants
\* ------------------------------------------------------------------------

PULSE_DUR == 100

EXIT_SUCCESS == 0

EXIT_FAILURE == 1

\* the factor of photo_interval_s * 1000 in loop()
MsPerSecond == 1000

\* the period of blinkLED_nb in milliseconds
BlinkMs == 1000

\* the stored floats count thousandths
FloatScale == MsPerSecond

INT_MIN == 0 - INT_MAX - 1

IntRange == INT_MIN .. INT_MAX

MillisMod == WrapSteps * PULSE_DUR

\* photos counted by the observer before the model stops firing: the
\* photo on which the counter overflows is the last
MaxShots == INT_MAX + 1

\* ret when no handler ran in this iteration
NoStatus == 0 - 1

\* sinceToggle before the first call of blinkLED_nb (the static is not yet initialised)
NoToggle == 0 - 1

\* ------------------------------------------------------------------------
\* Text of the command line: a string is a sequence of one-character strings
\* ------------------------------------------------------------------------

DigitChars == <<"0", "1", "2", "3", "4", "5", "6", "7", "8", "9">>

IsDigit(c) == \E i \in 1 .. 10 : DigitChars[i] = c

DigitVal(c) == (CHOOSE i \in 1 .. 10 : DigitChars[i] = c) - 1

IsSpace(c) == c = " "

RECURSIVE SkipSpace(_, _)
\* index of the first character of s at or after i that is no white space
SkipSpace(s, i) ==
    IF i <= Len(s) /\ IsSpace(s[i]) THEN SkipSpace(s, i + 1) ELSE i

RECURSIVE DigitsEnd(_, _)
\* index just after the run of digits of s that starts at i
DigitsEnd(s, i) ==
    IF i <= Len(s) /\ IsDigit(s[i]) THEN DigitsEnd(s, i + 1) ELSE i

RECURSIVE DigitsValue(_, _, _)
\* value of the digits s[i .. j-1] read as a decimal numeral (0 when empty)
DigitsValue(s, i, j) ==
    IF i >= j THEN 0 ELSE DigitsValue(s, i, j - 1) * 10 + DigitVal(s[j - 1])

\* where the numeral starts after white space and an optional sign
SignPos(s) == SkipSpace(s, 1)

HasSign(s) == SignPos(s) <= Len(s) /\ s[SignPos(s)] \in {"-", "+"}

IsNegative(s) == HasSign(s) /\ s[SignPos(s)] = "-"

NumStart(s) == IF HasSign(s) THEN SignPos(s) + 1 ELSE SignPos(s)

\* atoi: white space, sign, digits up to the first other character; the
\* mathematical value (the narrowing to int is IntOutcomes)
Atoi(s) ==
    LET b == NumStart(s)
        e == DigitsEnd(s, b)
        v == DigitsValue(s, b, e)
    IN  IF IsNegative(s) THEN -v ELSE v

\* 10^k
RECURSIVE Pow10(_)
Pow10(k) == IF k = 0 THEN 1 ELSE 10 * Pow10(k - 1)

\* atof on plain decimal numerals: white space, sign, digits, an optional
\* point and digits; the value in thousandths (digits past the third
\* fraction digit are below the model's resolution)
Atof(s) ==
    LET b  == NumStart(s)
        e  == DigitsEnd(s, b)
        ip == DigitsValue(s, b, e)
        hasPoint == e <= Len(s) /\ s[e] = "."
        fb == e + 1
        fe == IF hasPoint THEN DigitsEnd(s, fb) ELSE fb
        n  == IF fe - fb > 3 THEN 3 ELSE fe - fb
        fp == IF hasPoint THEN DigitsValue(s, fb, fb + n) * Pow10(3 - n) ELSE 0
        v  == ip * FloatScale + fp
    IN  IF IsNegative(s) THEN -v ELSE v

\* ------------------------------------------------------------------------
\* Machine arithmetic
\* ------------------------------------------------------------------------

\* the values an int can take after being given the mathematical value v:
\* v itself when it fits, anything when it does not (undefined behaviour)
IntOutcomes(v) == IF v \in IntRange THEN {v} ELSE IntRange

\* the product taken in int: the interval loses its fraction first
IntMul(n, x) == n * ((x \div FloatScale) * FloatScale)

\* (float) n * x, with x in thousandths
FloatMul(n, x) == n * x

\* floor(d / x) for floats d, x in thousandths: a finite integer, or the
\* class of the IEEE quotient when x is zero
FloorQuot(d, x) ==
    IF x = 0
    THEN [cls |-> IF d = 0 THEN "nan" ELSE "inf", val |-> 0]
    ELSE [cls |-> "finite",
          val |-> IF x > 0 THEN d \div x ELSE (0 - d) \div (0 - x)]

\* (int) q: undefined for a non-finite or out-of-range q
FloatToInt(q) == IF q.cls = "finite" THEN IntOutcomes(q.val) ELSE IntRange

\* a difference of two millis() readings, d milliseconds later
Later(t, d) == (t + d) % MillisMod

\* millis() - lastToggle, d milliseconds later
ToggleLater(t, d) == IF t = NoToggle THEN NoToggle ELSE Later(t, d)

\* the unsigned long that photo_interval_s * 1000 converts to when passed
\* to hasPassed: truncated when in range, anything otherwise
TimeoutOutcomes(x) ==
    LET ms == (x * MsPerSecond) \div FloatScale
    IN  IF x >= 0 /\ ms < MillisMod
        THEN {ms}
        ELSE {k * PULSE_DUR : k \in 0 .. WrapSteps - 1}

\* ------------------------------------------------------------------------
\* Inputs
\* ------------------------------------------------------------------------

\* argument texts for set_count
CountArgs == {<<"0">>, <<"2">>, <<"-", "1">>, <<"x">>}

\* argument texts for set_interval (seconds, not negative)
IntervalArgs == {<<"0">>, <<".", "5">>, <<"1">>}

\* argument texts for set_dur
DurArgs == {<<"1", ".", "5">>, <<"-", "1">>}

\* the argument texts of the liveness specification
LiveCountArgs == {<<"2">>}

LiveDurArgs == {<<"1", ".", "5">>}

LiveIntervalArgs == {<<".", "5">>, <<"1">>}

\* argument lists of a command that takes one argument: argc is 1 + Len
OneArgLists(S) == {<<a>> : a \in S} \cup {<<>>}

\* argument lists of a command that takes none
NoArgLists == {<<>>, <<<<"x">>>>}

\* time a loop iteration takes beyond its pulses
LoopMs == {0, PULSE_DUR}

\* ------------------------------------------------------------------------
\* State
\* ------------------------------------------------------------------------

VARIABLES
    pc,                 \* "input": loop() is at shell.executeIfInput(); "capture": after it
    capturing,          \* bool capturing
    max_photos,         \* int max_photos
    num_photos,         \* int num_photos
    af_enabled,         \* bool af_enabled
    photo_interval_s,   \* float photo_interval_s, in thousandths
    time_lapse_dur_s,   \* float time_lapse_dur_s, in thousandths
    photoTimer,         \* photoTimer.elapsed(): millis() - _startTime
    sinceToggle,        \* millis() - lastToggle of blinkLED_nb, NoToggle before its first call
    led,                \* level of LED_BUILTIN
    cmd,                \* the command the shell ran in this iteration, "none" otherwise
    ret,                \* what its handler returned
    pinLog,             \* the pin writes of the latest step, in order
    shutterPin,         \* level of SHUTTER_PIN
    afPin,              \* level of AF_PIN
    shots,              \* observer: photos fired by start and by loop() since the last start
    clean               \* observer: the last start came in Idle and no command followed it

vars == <<pc, capturing, max_photos, num_photos, af_enabled, photo_interval_s,
          time_lapse_dur_s, photoTimer, sinceToggle, led, cmd, ret, pinLog,
          shutterPin, afPin, shots, clean>>

params == <<max_photos, photo_interval_s, time_lapse_dur_s>>

Init ==
    /\ pc = "input"
    /\ capturing = FALSE
    /\ max_photos = 1
    /\ num_photos = 0
    /\ af_enabled = FALSE
    /\ photo_interval_s = 1 * FloatScale
    /\ time_lapse_dur_s = 0
    /\ photoTimer = 0
    /\ sinceToggle = NoToggle
    /\ led = "LOW"
    /\ cmd = "none"
    /\ ret = NoStatus
    /\ pinLog = <<>>
    /\ shutterPin = "LOW"
    /\ afPin = "LOW"
    /\ shots = 0
    /\ clean = FALSE

\* the build with autofocus: af_enabled is set in the source (line 51) and
\* no command changes it
AfInit ==
    /\ pc = "input"
    /\ capturing = FALSE
    /\ max_photos = 1
    /\ num_photos = 0
    /\ af_enabled \in BOOLEAN
    /\ photo_interval_s = 1 * FloatScale
    /\ time_lapse_dur_s = 0
    /\ photoTimer = 0
    /\ sinceToggle = NoToggle
    /\ led = "LOW"
    /\ cmd = "none"
    /\ ret = NoStatus
    /\ pinLog = <<>>
    /\ shutterPin = "LOW"
    /\ afPin = "LOW"
    /\ shots = 0
    /\ clean = FALSE

\* ------------------------------------------------------------------------
\* Pulses
\* ------------------------------------------------------------------------

\* pulseAF without the write that ends the pulse
pulseAFHeld == <<"AF_HIGH">>

pulseAF == <<"AF_HIGH", "AF_LOW">>

pulseShutter == <<"SHUTTER_HIGH", "SHUTTER_LOW">>

\* the level of a pin after the writes of log, in order
RECURSIVE PinAfter(_, _, _)
PinAfter(level, log, pin) ==
    IF log = <<>> THEN level
    ELSE PinAfter(IF Head(log) = pin \o "_HIGH" THEN "HIGH"
                  ELSE IF Head(log) = pin \o "_LOW" THEN "LOW"
                  ELSE level,
                  Tail(log), pin)

\* digitalWrite, for the writes of one step
digitalWrites(log) ==
    /\ pinLog' = log
    /\ shutterPin' = PinAfter(shutterPin, log, "SHUTTER")
    /\ afPin' = PinAfter(afPin, log, "AF")

\* triggerSinglePhoto with the shutter released before the autofocus
PhotoPinsShutterFirst == pulseShutter \o (IF af_enabled THEN pulseAF ELSE <<>>)

\* the pin writes of triggerSinglePhoto
PhotoPins == (IF af_enabled THEN pulseAF ELSE <<>>) \o pulseShutter

\* the time triggerSinglePhoto blocks
PhotoMs == (Len(PhotoPins) \div 2) * PULSE_DUR

\* ------------------------------------------------------------------------
\* Command handlers (the shell step of loop())
\* ------------------------------------------------------------------------

\* what every handler does to the shell's side of the state
Ran(name, status) ==
    /\ pc = "input"
    /\ pc' = "capture"
    /\ cmd' = name
    /\ ret' = status

badArgCount == EXIT_FAILURE

\* the setters with the capture test left out
AlwaysUpdatable == TRUE

\* the test of the three setters: if (!capturing)
NotCapturing == ~capturing

\* startTimeLapse without the reset of the counter
StartCountStale == num_photos

\* the value startTimeLapse gives num_photos before the first photo
StartCount == 0

showID(args) ==
    /\ Ran("file?", EXIT_SUCCESS)
    /\ clean' = FALSE
    /\ digitalWrites(<<>>)
    /\ UNCHANGED <<capturing, max_photos, num_photos, af_enabled, photo_interval_s,
                   time_lapse_dur_s, photoTimer, sinceToggle, led, shots>>

showInfo(args) ==
    /\ Ran("status?", EXIT_SUCCESS)
    /\ clean' = FALSE
    /\ digitalWrites(<<>>)
    /\ UNCHANGED <<capturing, max_photos, num_photos, af_enabled, photo_interval_s,
                   time_lapse_dur_s, photoTimer, sinceToggle, led, shots>>

setPhotoCount(args) ==
    /\ clean' = FALSE
    /\ digitalWrites(<<>>)
    /\ UNCHANGED <<capturing, num_photos, af_enabled, photo_interval_s,
                   photoTimer, sinceToggle, led, shots>>
    /\ IF Len(args) + 1 = 2
       THEN /\ Ran("set_count", EXIT_SUCCESS)
            /\ IF NotCapturing
               THEN \E n \in IntOutcomes(Atoi(args[1])) :
                       /\ max_photos' = n
                       /\ time_lapse_dur_s' = FloatMul(n, photo_interval_s)
               ELSE UNCHANGED <<max_photos, time_lapse_dur_s>>
       ELSE /\ Ran("set_count", badArgCount)
            /\ UNCHANGED <<max_photos, time_lapse_dur_s>>

setPhotoInterval(args) ==
    /\ clean' = FALSE
    /\ digitalWrites(<<>>)
    /\ UNCHANGED <<capturing, max_photos, num_photos, af_enabled,
                   photoTimer, sinceToggle, led, shots>>
    /\ IF Len(args) + 1 = 2
       THEN /\ Ran("set_interval", EXIT_SUCCESS)
            /\ IF NotCapturing
               THEN /\ photo_interval_s' = Atof(args[1])
                    /\ time_lapse_dur_s' = FloatMul(max_photos, photo_interval_s')
               ELSE UNCHANGED <<photo_interval_s, time_lapse_dur_s>>
       ELSE /\ Ran("set_interval", badArgCount)
            /\ UNCHANGED <<photo_interval_s, time_lapse_dur_s>>

setTimeLapseDuration(args) ==
    /\ clean' = FALSE
    /\ digitalWrites(<<>>)
    /\ UNCHANGED <<capturing, num_photos, af_enabled, photo_interval_s,
                   photoTimer, sinceToggle, led, shots>>
    /\ IF Len(args) + 1 = 2
       THEN /\ Ran("set_dur", EXIT_SUCCESS)
            /\ IF NotCapturing
               THEN /\ time_lapse_dur_s' = Atof(args[1])
                    /\ \E n \in FloatToInt(FloorQuot(time_lapse_dur_s', photo_interval_s)) :
                          max_photos' = n
               ELSE UNCHANGED <<max_photos, time_lapse_dur_s>>
       ELSE /\ Ran("set_dur", badArgCount)
            /\ UNCHANGED <<max_photos, time_lapse_dur_s>>

\* a manual photo that is counted like an automatic one
triggerCounted(args) ==
    /\ Ran("trigger", EXIT_SUCCESS)
    /\ clean' = FALSE
    /\ digitalWrites(PhotoPins)
    /\ photoTimer' = Later(photoTimer, PhotoMs)
    /\ sinceToggle' = ToggleLater(sinceToggle, PhotoMs)
    /\ \E v \in IntOutcomes(num_photos + 1) : num_photos' = v
    /\ UNCHANGED <<capturing, max_photos, af_enabled, photo_interval_s,
                   time_lapse_dur_s, led, shots>>

\* a manual photo that restarts the interval timer like an automatic one
triggerRestarting(args) ==
    /\ Ran("trigger", EXIT_SUCCESS)
    /\ clean' = FALSE
    /\ digitalWrites(PhotoPins)
    /\ photoTimer' = Later(0, PhotoMs)
    /\ sinceToggle' = ToggleLater(sinceToggle, PhotoMs)
    /\ UNCHANGED <<capturing, max_photos, num_photos, af_enabled, photo_interval_s,
                   time_lapse_dur_s, led, shots>>

triggerSinglePhoto(args) ==
    /\ Ran("trigger", EXIT_SUCCESS)
    /\ clean' = FALSE
    /\ digitalWrites(PhotoPins)
    /\ photoTimer' = Later(photoTimer, PhotoMs)
    /\ sinceToggle' = ToggleLater(sinceToggle, PhotoMs)
    /\ UNCHANGED <<capturing, max_photos, num_photos, af_enabled, photo_interval_s,
                   time_lapse_dur_s, led, shots>>

stopTimeLapse(args) ==
    /\ Ran("cancel", EXIT_SUCCESS)
    /\ clean' = FALSE
    /\ capturing' = FALSE
    /\ digitalWrites(<<>>)
    /\ UNCHANGED <<max_photos, num_photos, af_enabled, photo_interval_s,
                   time_lapse_dur_s, photoTimer, sinceToggle, led, shots>>

\* incrCapCount comparing one photo late
ReachedMaxLate(v) == v = max_photos + 1

\* the test of incrCapCount on the incremented counter v
ReachedMax(v) == v = max_photos

\* incrCapCount on a counter that holds n while capture is active
incrCapCount(n) ==
    \E v \in IntOutcomes(n + 1) :
        /\ num_photos' = v
        /\ capturing' = IF ReachedMax(v) THEN FALSE ELSE TRUE

\* a start that is rejected while a capture is running
startIfIdle(args) ==
    IF capturing
    THEN /\ Ran("start", EXIT_FAILURE)
         /\ clean' = FALSE
         /\ digitalWrites(<<>>)
         /\ UNCHANGED <<capturing, max_photos, num_photos, af_enabled,
                        photo_interval_s, time_lapse_dur_s, photoTimer,
                        sinceToggle, led, shots>>
    ELSE /\ Ran("start", EXIT_SUCCESS)
         /\ clean' = TRUE
         /\ photoTimer' = Later(0, PhotoMs)
         /\ sinceToggle' = ToggleLater(sinceToggle, PhotoMs)
         /\ digitalWrites(PhotoPins)
         /\ incrCapCount(StartCount)
         /\ shots' = 1
         /\ UNCHANGED <<max_photos, af_enabled, photo_interval_s,
                        time_lapse_dur_s, led>>

startTimeLapse(args) ==
    /\ Ran("start", EXIT_SUCCESS)
    /\ clean' = ~capturing
    /\ photoTimer' = Later(0, PhotoMs)
    /\ sinceToggle' = ToggleLater(sinceToggle, PhotoMs)
    /\ digitalWrites(PhotoPins)
    /\ incrCapCount(StartCount)
    /\ shots' = 1
    /\ UNCHANGED <<max_photos, af_enabled, photo_interval_s, time_lapse_dur_s, led>>

\* shell.executeIfInput() with no line waiting
NoInput ==
    /\ pc = "input"
    /\ pc' = "capture"
    /\ cmd' = "none"
    /\ digitalWrites(<<>>)
    /\ UNCHANGED <<capturing, max_photos, num_photos, af_enabled, photo_interval_s,
                   time_lapse_dur_s, photoTimer, sinceToggle, led, shots, clean>>
    /\ ret' = NoStatus

\* ------------------------------------------------------------------------
\* The rest of loop()
\* ------------------------------------------------------------------------

\* blinkLED_nb: the value of millis() - lastToggle it leaves, and the LED
BlinkToggles == sinceToggle # NoToggle /\ sinceToggle > BlinkMs

BlinkSince == IF sinceToggle = NoToggle \/ BlinkToggles THEN 0 ELSE sinceToggle

BlinkLed == IF BlinkToggles THEN (IF led = "LOW" THEN "HIGH" ELSE "LOW") ELSE led

BlinkPins == IF BlinkToggles THEN <<"LED_" \o BlinkLed>> ELSE <<>>

\* photoTimer.hasPassed(timeout)
hasPassed(timeout) == photoTimer >= timeout

\* an else branch of loop() that leaves the LED as it is
IdleLedKept == led

\* the level the else branch of loop() writes to LED_BUILTIN
IdleLed == "LOW"

\* loop() without the test of the capture flag
LoopAlways == TRUE

\* the test of loop(): if (capturing)
LoopCapturing == capturing

\* loop() after the shell step; the iteration takes dt ms beyond its pulses
loop(dt) ==
    /\ pc = "capture"
    /\ pc' = "input"
    /\ cmd' = "none"
    /\ ret' = NoStatus
    /\ UNCHANGED <<max_photos, af_enabled, photo_interval_s, time_lapse_dur_s,
                   clean>>
    /\ IF LoopCapturing
       THEN \E timeout \in TimeoutOutcomes(photo_interval_s) :
              IF hasPassed(timeout)
              THEN /\ shots < MaxShots
                   /\ shots' = shots + 1
                   /\ photoTimer' = Later(0, PhotoMs + dt)
                   /\ sinceToggle' = Later(BlinkSince, PhotoMs + dt)
                   /\ led' = BlinkLed
                   /\ digitalWrites(BlinkPins \o PhotoPins)
                   /\ incrCapCount(num_photos)
              ELSE /\ photoTimer' = Later(photoTimer, dt)
                   /\ sinceToggle' = Later(BlinkSince, dt)
                   /\ led' = BlinkLed
                   /\ digitalWrites(BlinkPins)
                   /\ UNCHANGED <<capturing, num_photos, shots>>
       ELSE /\ led' = IdleLed
            /\ digitalWrites(<<"LED_" \o IdleLed>>)
            /\ photoTimer' = Later(photoTimer, dt)
            /\ sinceToggle' = ToggleLater(sinceToggle, dt)
            /\ UNCHANGED <<capturing, num_photos, shots>>

\* ------------------------------------------------------------------------
\* Specifications
\* ------------------------------------------------------------------------

\* one step of loop() with the command lines drawn from the given argument lists
Step(noArgs, countLists, durLists, intervalLists) ==
    \/ NoInput
    \/ \E a \in noArgs : showID(a)
    \/ \E a \in noArgs : showInfo(a)
    \/ \E a \in noArgs : triggerSinglePhoto(a)
    \/ \E a \in noArgs : startTimeLapse(a)
    \/ \E a \in noArgs : stopTimeLapse(a)
    \/ \E a \in countLists : setPhotoCount(a)
    \/ \E a \in durLists : setTimeLapseDuration(a)
    \/ \E a \in intervalLists : setPhotoInterval(a)
    \/ \E dt \in LoopMs : loop(dt)

Next ==
    Step(NoArgLists, OneArgLists(CountArgs), OneArgLists(DurArgs),
         OneArgLists(IntervalArgs))

Spec == Init /\ [][Next]_vars

\* the same program fed well-formed command lines only, with positive intervals
LiveNext ==
    Step({<<>>}, {<<a>> : a \in LiveCountArgs}, {<<a>> : a \in LiveDurArgs},
         {<<a>> : a \in LiveIntervalArgs})

\* loop() is called again and again (its shell step always returns) and the
\* millisecond clock keeps running
LiveSpec ==
    /\ Init
    /\ [][LiveNext]_vars
    /\ WF_vars(pc = "input" /\ LiveNext)
    /\ WF_vars(\E dt \in LoopMs : loop(dt))
    /\ SF_vars(loop(PULSE_DUR))

\* both builds, without and with autofocus, fed well-formed command lines
AfSpec == AfInit /\ [][LiveNext]_vars

\* ------------------------------------------------------------------------
\* Properties
\* ------------------------------------------------------------------------

\* number of shutter pulses in a pin log
RECURSIVE ShutterPulses(_)
ShutterPulses(log) ==
    IF log = <<>> THEN 0
    ELSE (IF Head(log) = "SHUTTER_HIGH" THEN 1 ELSE 0) + ShutterPulses(Tail(log))

\* a command handler ran in this iteration
CmdRan == pc = "capture" /\ cmd # "none"

SetterNames == {"set_count", "set_interval", "set_dur"}

\* the capture that the last start began from Idle has run to its end
CleanDone ==
    /\ ~capturing
    /\ num_photos = max_photos
    /\ shots = max_photos

\* C1: for targetCount > 0, after a start issued in Idle that no command
\* follows, the system returns to Idle; Idle is reached with exactly
\* targetCount photos fired by start and the ticks (takenCount ==
\* targetCount), and the ticks after it fire no further photo.
C1_CaptureCompletes ==
    /\ (clean /\ max_photos > 0) ~> (~clean \/ CleanDone)
    /\ []((clean /\ max_photos > 0 /\ ~capturing) => CleanDone)
    /\ []((clean /\ max_photos > 0 /\ capturing)
            => (shots = num_photos /\ num_photos < max_photos))

\* C1 witness: a start in Idle with targetCount 3 and nothing but ticks
\* after it has come back to Idle
C1_Witness ==
    /\ clean
    /\ pc = "input"
    /\ max_photos = 3
    /\ CleanDone

\* C2: with targetCount == 0 a capture never stops on its own: from a
\* start on, every step but cancel leaves active true.
C2_UnlimitedNeverStops ==
    [][(max_photos = 0 /\ (capturing \/ cmd' = "start") /\ cmd' # "cancel")
       => capturing']_vars

\* C3: no step taken while capturing changes targetCount, intervalSeconds
\* or totalDurationSeconds, and set_count, set_interval and set_dur leave
\* active and takenCount alone as well.
C3_ParametersFrozen ==
    [][capturing
       => /\ UNCHANGED params
          /\ cmd' \in SetterNames => UNCHANGED <<capturing, num_photos>>]_vars

\* C3 witness: set_interval with one argument has run during a capture
C3_Witness ==
    /\ pc = "capture"
    /\ capturing
    /\ cmd = "set_interval"
    /\ ret = EXIT_SUCCESS

\* C4: while capturing, set_count, set_interval and set_dur called with one
\* argument return a failure status.
C4_SettersFailMidCapture ==
    [][(/\ capturing
        /\ \/ \E a \in CountArgs : setPhotoCount(<<a>>)
           \/ \E a \in IntervalArgs : setPhotoInterval(<<a>>)
           \/ \E a \in DurArgs : setTimeLapseDuration(<<a>>))
       => ret' = EXIT_FAILURE]_vars

\* C5: trigger can run in Idle and in Capturing alike; it returns success,
\* pulses the shutter once and leaves takenCount, targetCount and active as
\* they were.
C5_TriggerLeavesCounters ==
    /\ [](pc = "input" => ENABLED triggerSinglePhoto(<<>>))
    /\ [][cmd' = "trigger"
          => /\ ret' = EXIT_SUCCESS
             /\ ShutterPulses(pinLog') = 1
             /\ UNCHANGED <<num_photos, max_photos, capturing>>]_vars

\* C5 witness: a manual photo taken in the middle of a capture
C5_Witness ==
    /\ pc = "capture"
    /\ cmd = "trigger"
    /\ capturing
    /\ num_photos = 2
    /\ ShutterPulses(pinLog) = 1

\* C6: in every reachable state, targetCount != 0 implies takenCount <=
\* targetCount.
C6_TakenWithinTarget == max_photos # 0 => num_photos <= max_photos

\* C7: whenever capture is not active, totalDurationSeconds == targetCount
\* * intervalSeconds.
C7_DurationIsProduct ==
    ~capturing => time_lapse_dur_s = max_photos * photo_interval_s

\* the decimal numeral of a natural number
RECURSIVE NatText(_)
NatText(n) ==
    IF n < 10 THEN <<DigitChars[n + 1]>>
    ELSE NatText(n \div 10) \o <<DigitChars[(n % 10) + 1]>>

\* the decimal numeral of an integer
IntText(n) == IF n < 0 THEN <<"-">> \o NatText(0 - n) ELSE NatText(n)

\* the decimal numeral, with three fraction digits, of x thousandths
FloatText(x) ==
    LET m == IF x < 0 THEN 0 - x ELSE x
        f == m % FloatScale
    IN  (IF x < 0 THEN <<"-">> ELSE <<>>)
        \o NatText(m \div FloatScale)
        \o <<".", DigitChars[(f \div 100) + 1], DigitChars[((f \div 10) % 10) + 1],
             DigitChars[(f % 10) + 1]>>

\* k is floor(d / x): false of every k when x is zero
IsFloorOfQuotient(k, d, x) ==
    \/ x > 0 /\ k * x <= d /\ d < (k + 1) * x
    \/ x < 0 /\ k * x >= d /\ d > (k + 1) * x

\* the durations and intervals, in thousandths, that the claims range
\* over: the multiples of half a second from -1.5 s to 1.5 s
HalfSeconds == {k * (FloatScale \div 2) : k \in (0 - INT_MAX) .. INT_MAX}

\* C8: in Idle, set_dur d sets totalDurationSeconds to d and targetCount to
\* floor(d / intervalSeconds) whatever d and intervalSeconds are, leaves
\* intervalSeconds as it was and returns success.
C8_DurationSetsCount ==
    [][(~capturing /\ cmd' = "set_dur") =>
       \A d \in HalfSeconds :
          setTimeLapseDuration(<<FloatText(d)>>)
          => /\ time_lapse_dur_s' = d
             /\ IsFloorOfQuotient(max_photos', d, photo_interval_s)
             /\ photo_interval_s' = photo_interval_s
             /\ ret' = EXIT_SUCCESS]_vars

C10_CancelFreezes ==
    [][/\ cmd' = "cancel" => (~capturing' /\ num_photos' = num_photos)
       /\ (~capturing /\ cmd' # "start")
          => /\ ~capturing'
             /\ num_photos' = num_photos
             /\ shots' = shots
             /\ pc = "capture" => ShutterPulses(pinLog') = 0]_vars

\* C10 witness: an unlimited capture cancelled after two photos; the tick
\* about to run finds the interval long elapsed
C10_Witness ==
    /\ pc = "capture"
    /\ cmd = "none"
    /\ ~capturing
    /\ max_photos = 0
    /\ num_photos = 2
    /\ shots = 2
    /\ photo_interval_s > 0
    /\ photoTimer > (photo_interval_s * MsPerSecond) \div FloatScale

\* the fields of CaptureState
captureState ==
    <<capturing, af_enabled, max_photos, num_photos, photo_interval_s,
      time_lapse_dur_s>>

\* C11: every command invoked with a number of arguments other than the one
\* the command table lists (none for file?, status?, trigger, start and
\* cancel, one for the setters) returns a failure status, changes no field
\* of CaptureState and fires no photo, in Idle and in Capturing.
C11_BadArgCountRejected ==
    [][(\/ \E a \in NoArgLists :
              /\ Len(a) # 0
              /\ \/ showID(a)
                 \/ showInfo(a)
                 \/ triggerSinglePhoto(a)
                 \/ startTimeLapse(a)
                 \/ stopTimeLapse(a)
        \/ setPhotoCount(<<>>)
        \/ setPhotoInterval(<<>>)
        \/ setTimeLapseDuration(<<>>))
       => /\ ret' = EXIT_FAILURE
          /\ UNCHANGED captureState
          /\ ShutterPulses(pinLog') = 0]_vars

\* C12: at the end of every loop iteration that ends with active false the
\* indicator pin is low, and the pin is high only while active is true.
C12_LedLowWhenIdle ==
    /\ (pc = "input" /\ ~capturing) => led = "LOW"
    /\ led = "HIGH" => capturing

\* C12 as amended: a loop iteration whose capture test finds active false
\* ends with the indicator pin low; the pin goes from low to high only in a
\* tick taken while active is true; while active stays false a low pin
\* stays low.
C12_LedClearedByNextLoop ==
    [][/\ (pc = "capture" /\ ~capturing) => led' = "LOW"
       /\ (led = "LOW" /\ led' = "HIGH") => (pc = "capture" /\ capturing)
       /\ (~capturing /\ ~capturing' /\ led = "LOW") => led' = "LOW"]_vars

\* C12 witness: the capture was cancelled while the pin was high and the
\* loop iteration of the cancel is about to clear it
C12_Witness ==
    /\ pc = "capture"
    /\ cmd = "cancel"
    /\ ~capturing
    /\ led = "HIGH"

\* a write to one of the two camera pins
IsCameraWrite(w) == w \in {"AF_HIGH", "AF_LOW", "SHUTTER_HIGH", "SHUTTER_LOW"}

\* the writes of a pin log that go to the camera pins, in order
CameraWrites(log) == SelectSeq(log, IsCameraWrite)

\* the step fires a photo: a manual trigger, a start, or a tick that fires
PhotoFire ==
    \/ cmd' = "trigger"
    \/ cmd' = "start"
    \/ pc = "capture" /\ shots' = shots + 1

\* C13: every photo fire (trigger, start or tick) pulses the shutter pin
\* exactly once; with autofocus enabled it first pulses the autofocus pin
\* once, and that pulse has ended before the shutter pin goes high; with
\* autofocus disabled the autofocus pin is not written.
C13_PulseOrder ==
    [][PhotoFire =>
          CameraWrites(pinLog') =
             IF af_enabled
             THEN <<"AF_HIGH", "AF_LOW", "SHUTTER_HIGH", "SHUTTER_LOW">>
             ELSE <<"SHUTTER_HIGH", "SHUTTER_LOW">>]_vars

\* C13 witness: with autofocus enabled a tick has fired the second photo of
\* a capture
C13_Witness ==
    /\ af_enabled
    /\ pc = "input"
    /\ capturing
    /\ num_photos = 2
    /\ shots = 2
    /\ Len(CameraWrites(pinLog)) = 4

\* the time the camera pulses of a pin log take
PulseTime(log) == (Len(CameraWrites(log)) \div 2) * PULSE_DUR

\* C14: start issued in Idle counts from zero, restarts the interval timer,
\* fires exactly one photo at once and leaves takenCount at 1; right after
\* the command the state is Idle if targetCount is 1 and Capturing for
\* every other targetCount; the three parameters are unchanged.
C14_StartFromIdle ==
    [][(~capturing /\ cmd' = "start") =>
          /\ ret' = EXIT_SUCCESS
          /\ num_photos' = 1
          /\ shots' = 1
          /\ ShutterPulses(pinLog') = 1
          /\ photoTimer' = PulseTime(pinLog')
          /\ capturing' = (max_photos # 1)
          /\ UNCHANGED params]_vars

\* C14 witness: a start in Idle with targetCount 1 and an interval of half
\* a second has fired its photo and is back in Idle
C14_Witness ==
    /\ pc = "capture"
    /\ cmd = "start"
    /\ clean
    /\ ~capturing
    /\ max_photos = 1
    /\ num_photos = 1
    /\ time_lapse_dur_s = FloatScale \div 2

\* at least intervalSeconds * 1000 ms have elapsed since the timer's epoch
IntervalElapsed == photoTimer * FloatScale >= photo_interval_s * MsPerSecond

\* C15: a loop tick in Capturing fires a photo if and only if the time
\* elapsed since the timer's epoch is at least intervalSeconds * 1000 ms;
\* a tick that fires fires exactly one photo and adds exactly 1 to
\* takenCount; a tick that does not fire changes neither takenCount nor
\* active.
C15_TickFiresWhenDue ==
    [][(pc = "capture" /\ capturing) =>
          IF IntervalElapsed
          THEN /\ ShutterPulses(pinLog') = 1
               /\ num_photos' = num_photos + 1
          ELSE /\ ShutterPulses(pinLog') = 0
               /\ UNCHANGED <<num_photos, capturing>>]_vars

\* the times the step can have taken: its camera pulses, and for the rest
\* of loop() the time of the iteration
StepMs == {PulseTime(pinLog') + dt : dt \in IF pc = "capture" THEN LoopMs ELSE {0}}

\* the step leaves the timer's epoch where it was
EpochKept == photoTimer' \in {Later(photoTimer, d) : d \in StepMs}

\* the step moves the timer's epoch to a moment within the step
EpochResetInStep ==
    \E d \in StepMs : photoTimer' \in {k * PULSE_DUR : k \in 0 .. (d \div PULSE_DUR)}

\* the step moves the timer's epoch to the moment before its camera pulses
EpochResetBeforePulse == photoTimer' \in {Later(0, d) : d \in StepMs}

\* C16: the interval timer's epoch is reset to the current time on every
\* photo fired (by trigger, start or tick) and on capture start, and by
\* nothing else: every other step leaves the epoch where it was.
C16_EpochResetOnEveryPhoto ==
    [][IF PhotoFire THEN EpochResetInStep ELSE EpochKept]_vars

\* C16 as amended: the epoch is reset by start and by every tick that
\* fires, and by nothing else: the setters, cancel, the status queries,
\* ticks that do not fire and also the manual trigger leave it where it
\* was.
C16_EpochResetByStartAndTick ==
    [][IF cmd' = "start" \/ (pc = "capture" /\ shots' = shots + 1)
       THEN EpochResetBeforePulse
       ELSE EpochKept]_vars

\* C16 witness: a manual trigger during a capture, 0.6 s after the epoch
C16_Witness ==
    /\ pc = "capture"
    /\ cmd = "trigger"
    /\ capturing
    /\ photoTimer = 6 * PULSE_DUR
    /\ photo_interval_s = FloatScale

\* the step fires a photo that is counted: a start, or a tick that fires
CountedFire == cmd' = "start" \/ (pc = "capture" /\ shots' = shots + 1)

\* C17: active goes from true to false only by cancel or in a step that
\* fires a counted photo and leaves takenCount == targetCount with
\* targetCount != 0; and every counted photo that leaves takenCount ==
\* targetCount != 0 ends the capture in that same step.
C17_StopsOnlyByCancelOrTarget ==
    [][/\ (capturing /\ ~capturing')
          => \/ cmd' = "cancel"
             \/ CountedFire /\ num_photos' = max_photos /\ max_photos # 0
       /\ (CountedFire /\ num_photos' = max_photos /\ max_photos # 0)
          => ~capturing']_vars

\* the two camera pins are high together at some point while the writes of
\* log are made, starting from levels s (shutter) and a (autofocus)
RECURSIVE BothHighDuring(_, _, _)
BothHighDuring(s, a, log) ==
    \/ s = "HIGH" /\ a = "HIGH"
    \/ /\ log # <<>>
       /\ BothHighDuring(PinAfter(s, <<Head(log)>>, "SHUTTER"),
                         PinAfter(a, <<Head(log)>>, "AF"), Tail(log))

\* C18: the shutter and autofocus pins are both low at startup, wherever a
\* command is read and at the start and end of every loop iteration; they
\* are never high together; no command is processed while a pin is high.
C18_PulsesAtomic ==
    /\ [](shutterPin = "LOW" /\ afPin = "LOW")
    /\ [][/\ ~BothHighDuring(shutterPin, afPin, pinLog')
          /\ cmd' # "none" => (shutterPin = "LOW" /\ afPin = "LOW")]_vars

\* C18 witness: with autofocus enabled a manual trigger during a capture
\* has pulsed both pins and returned
C18_Witness ==
    /\ af_enabled
    /\ pc = "capture"
    /\ cmd = "trigger"
    /\ capturing
    /\ Len(CameraWrites(pinLog)) = 4
    /\ shutterPin = "LOW"
    /\ afPin = "LOW"

\* C19: takenCount while Capturing equals the number of photos fired by
\* start and by ticks since the most recent start, is at least 1, and
\* never becomes smaller from one step to the next within a capture.
C19_CounterNeverWraps ==
    /\ [](capturing => (num_photos = shots /\ num_photos >= 1))
    /\ [][(capturing /\ capturing' /\ cmd' # "start")
          => num_photos' >= num_photos]_vars

\* C20: start issued while Capturing is accepted: it counts from zero
\* again, restarts the interval timer, fires one photo at once however
\* little of the interval has elapsed and leaves takenCount at 1; the
\* capture then runs for targetCount photos counted from this start (it
\* ends by itself exactly when that many have been fired since the most
\* recent start), on top of the photos fired before it.
C20_RestartWhileCapturing ==
    /\ [][(capturing /\ cmd' = "start") =>
             /\ ret' = EXIT_SUCCESS
             /\ shots >= 1
             /\ num_photos' = 1
             /\ shots' = 1
             /\ ShutterPulses(pinLog') = 1
             /\ photoTimer' = PulseTime(pinLog')
             /\ capturing' = (max_photos # 1)
             /\ UNCHANGED params]_vars
    /\ []((capturing /\ max_photos > 0)
             => (shots = num_photos /\ num_photos < max_photos))
    /\ [][(capturing /\ max_photos > 0 /\ ~capturing' /\ cmd' # "cancel")
             => (num_photos' = max_photos /\ shots' = max_photos)]_vars

\* C20 witness: a capture of two photos was started again while it ran,
\* before its interval had elapsed: the photo of the first start and the
\* two of the second make three
C20_Witness ==
    /\ pc = "capture"
    /\ cmd = "start"
    /\ ~clean
    /\ capturing
    /\ max_photos = 2
    /\ photo_interval_s = FloatScale
    /\ num_photos = 1
    /\ shots = 1

====
